---- MODULE Spec2Model ----
(***************************************************************************)
(* Fixed-base scalar multiplication on binary elliptic curves (RELIC,      *)
(* relic_eb_mul_fix.c): the precomputation builders eb_mul_pre_* and the   *)
(* evaluators eb_mul_fix_*.                                                *)
(*                                                                         *)
(* The group of points is the cyclic group of order `ord`: a point is its  *)
(* discrete logarithm v (0 is the point at infinity) together with the     *)
(* flag `norm` of RELIC's eb_st, which says whether the coordinates are    *)
(* affine.  Every builder and evaluator is a sequence of steps, one per    *)
(* collaborator call of the source, so that a failure can be raised at any *)
(* call and several evaluators can interleave on one table.                *)
(***************************************************************************)
EXTENDS Integers, Sequences, FiniteSets, TLC

(***************************************************************************)
(* Build configuration and bounds of the model.                            *)
(***************************************************************************)
\* Degree of the binary field GF(2^FB_BITS); it sizes the digit buffers of the
\* evaluators.  Over GF(2^5) there are curves with subgroups of order 7, 11
\* and 19 (curve orders 28, 22 or 44, and 38); the Koblitz curves have 11.
FB_BITS == 5
\* Largest window width EB_DEPTH explored (the smallest is 2, which the
\* LWNAF table of 2^(EB_DEPTH-2) slots needs).
MaxDepth == 3
\* Group orders explored on curves that are not Koblitz curves: 7 = 2^3 - 1
\* (order + 1 has one more bit) and 19 (5 bits, as many as the field).
Orders == {7, 19}
Depths == 2..MaxDepth
Variants == {"BASIC", "YAOWI", "NAFWI", "COMBS", "COMBD", "LWNAF"}
\* Evaluator invocations that may share one table.
Procs == {1, 2}

(***************************************************************************)
(* Integer helpers.                                                        *)
(***************************************************************************)
RECURSIVE Pow2(_)
Pow2(n) == IF n <= 0 THEN 1 ELSE 2 * Pow2(n - 1)

Abs(x) == IF x < 0 THEN -x ELSE x

\* relic_util.h: #define CEIL(A, B) (((A) - 1) / (B) + 1), for A >= 1.
CEIL(a, b) == ((a - 1) \div b) + 1

\* Conversion of an int to int8_t / char (two's complement wrap).
ToInt8(x) == ((x + 128) % 256) - 128

(***************************************************************************)
(* Scalar interface (relic_bn.h): the magnitude and the sign are separate. *)
(***************************************************************************)
RECURSIVE BitLen(_)
BitLen(m) == IF m = 0 THEN 0 ELSE 1 + BitLen(m \div 2)

bn_bits(k) == BitLen(Abs(k))
bn_get_bit(k, i) == (Abs(k) \div Pow2(i)) % 2
bn_is_zero(k) == k = 0
bn_sign_neg(k) == k < 0

(***************************************************************************)
(* Group arithmetic interface (relic_eb.h), projective coordinates: every  *)
(* operation that computes a new finite point leaves it unnormalized.      *)
(***************************************************************************)
Infty == [v |-> 0, norm |-> TRUE]
Points(o) == {Infty} \cup [v : 1..(o - 1), norm : BOOLEAN]
\* Content of a table slot that was never written.
Unset == [v |-> -1, norm |-> FALSE]

Mk(o, x) == IF x % o = 0 THEN Infty ELSE [v |-> x % o, norm |-> FALSE]

eb_is_infty(p) == p.v = 0
eb_copy(p) == p
eb_neg(o, p) == IF eb_is_infty(p) THEN Infty ELSE [v |-> (o - p.v) % o, norm |-> p.norm]
eb_dbl(o, p) == IF eb_is_infty(p) THEN Infty ELSE Mk(o, 2 * p.v)
eb_add(o, p, q) ==
  IF eb_is_infty(p) THEN q
  ELSE IF eb_is_infty(q) THEN p
  ELSE Mk(o, p.v + q.v)
eb_sub(o, p, q) == eb_add(o, p, eb_neg(o, q))
eb_norm(p) == IF eb_is_infty(p) THEN Infty ELSE [v |-> p.v, norm |-> TRUE]

\* Reference multiplication: right-to-left double-and-add on the magnitude,
\* then the sign.
RECURSIVE DblAdd(_, _, _)
DblAdd(o, p, m) ==
  IF m = 0 THEN Infty
  ELSE LET h == eb_dbl(o, DblAdd(o, p, m \div 2))
       IN IF m % 2 = 1 THEN eb_add(o, h, p) ELSE h
RefMul(o, p, k) ==
  LET q == eb_norm(DblAdd(o, p, Abs(k))) IN IF k < 0 THEN eb_neg(o, q) ELSE q

(***************************************************************************)
(* Recoding interface (relic_bn.h).  Each recoder returns the digits, least *)
(* significant first, or fails when the caller's buffer is too small.      *)
(***************************************************************************)
\* bn_rec_win: plain w-bit windows of the magnitude.
bn_rec_win(cap, k, w) ==
  LET n == CEIL(bn_bits(k), w)
  IN IF cap < n THEN [ok |-> FALSE, dig |-> << >>]
     ELSE [ok |-> TRUE,
           dig |-> [x \in 1..n |-> (Abs(k) \div Pow2((x - 1) * w)) % Pow2(w)]]

\* bn_rec_naf: width-w non-adjacent form of the magnitude; a nonzero digit is
\* the odd residue of the running value in (-2^(w-1), 2^(w-1)).
RECURSIVE NafDigits(_, _)
NafDigits(m, w) ==
  IF m = 0 THEN << >>
  ELSE IF m % 2 = 0 THEN <<0>> \o NafDigits(m \div 2, w)
  ELSE LET u0 == m % Pow2(w)
           u  == IF u0 > Pow2(w) \div 2 THEN u0 - Pow2(w) ELSE u0
       IN <<u>> \o NafDigits((m - u) \div 2, w)
bn_rec_naf(cap, k, w) ==
  IF cap < bn_bits(k) + 1 THEN [ok |-> FALSE, dig |-> << >>]
  ELSE [ok |-> TRUE, dig |-> NafDigits(Abs(k), w)]

(***************************************************************************)
(* Koblitz curves.  tau is the Frobenius endomorphism of the curve; it     *)
(* satisfies tau^2 + 2 = u * tau, where u = -1 when the coefficient a of   *)
(* the curve is 0 and u = 1 when it is 1.  The element a + b * tau of      *)
(* Z[tau] is the pair <<a, b>>.                                            *)
(***************************************************************************)
TauNorm(x, u) == x[1] * x[1] + u * x[1] * x[2] + 2 * x[2] * x[2]
TauMul(x, y, u) ==
  <<x[1] * y[1] - 2 * x[2] * y[2], x[1] * y[2] + x[2] * y[1] + u * x[2] * y[2]>>
RECURSIVE TauPow(_, _)
TauPow(i, u) == IF i = 0 THEN <<1, 0>> ELSE TauMul(TauPow(i - 1, u), <<0, 1>>, u)
\* (tau^m - 1) / (tau - 1) = 1 + tau + ... + tau^(m-1)
RECURSIVE TauDelta(_, _)
TauDelta(m, u) ==
  IF m = 0 THEN <<0, 0>>
  ELSE LET d == TauDelta(m - 1, u)
           p == TauPow(m - 1, u)
       IN <<d[1] + p[1], d[2] + p[2]>>
\* Order of the main subgroup of the Koblitz curve over GF(2^m): the norm of
\* (tau^m - 1) / (tau - 1).
KoblitzOrder(m, u) == TauNorm(TauDelta(m, u), u)
TauEval(x, lam) == x[1] + x[2] * lam
\* The residue by which tau acts on the subgroup of order o.
TauLambda(o, m, u) ==
  CHOOSE x \in 0..(o - 1) :
    (x * x - u * x + 2) % o = 0 /\ TauEval(TauDelta(m, u), x) % o = 0
\* eb_frb: the Frobenius map squares the coordinates, so it keeps the form.
eb_frb(o, p, m, u) ==
  IF eb_is_infty(p) THEN Infty ELSE [v |-> (TauLambda(o, m, u) * p.v) % o, norm |-> p.norm]
\* The even residue of tau modulo 2^w.
TauTw(w, u) ==
  CHOOSE x \in 0..(Pow2(w) - 1) : x % 2 = 0 /\ (x * x - u * x + 2) % Pow2(w) = 0
\* The element of least norm of a nonempty finite set of elements.
TauLeast(c, u) == CHOOSE x \in c : \A y \in c : TauNorm(x, u) <= TauNorm(y, u)
\* alpha_d = d mods tau^w: the element of least norm congruent to the odd
\* digit d modulo tau^w (its norm is below 2^w, so its coordinates are
\* within w of 0).
TauAlpha(d, w, u) ==
  LET tw == TauTw(w, u)
      c  == {x \in ((-w)..w) \X ((-w)..w) : (x[1] + x[2] * tw - d) % Pow2(w) = 0}
  IN TauLeast(c, u)
\* Width-w tau-adic NAF of r0 + r1 * tau, least significant digit first.
RECURSIVE TnafDigits(_, _, _, _)
TnafDigits(r0, r1, w, u) ==
  IF r0 = 0 /\ r1 = 0 THEN << >>
  ELSE LET x0 == (r0 + r1 * TauTw(w, u)) % Pow2(w)
           d  == IF r0 % 2 = 0 THEN 0
                 ELSE IF x0 >= Pow2(w - 1) THEN x0 - Pow2(w) ELSE x0
           al == IF d = 0 THEN <<0, 0>>
                 ELSE IF d > 0 THEN TauAlpha(d, w, u)
                 ELSE <<-TauAlpha(-d, w, u)[1], -TauAlpha(-d, w, u)[2]>>
           s0 == r0 - al[1]
           s1 == r1 - al[2]
       IN <<d>> \o TnafDigits(s1 + u * (s0 \div 2), -(s0 \div 2), w, u)
\* bn_rec_tnaf: the digit sequence is the decomposition of the scalar: the
\* width-w tau-adic NAF of the magnitude, sum of alpha(dig[i]) * tau^i = |k|.
\* The field size m only bounds the length the caller must provide for.
bn_rec_tnaf(cap, k, u, m, w) ==
  LET dig == TnafDigits(Abs(k), 0, w, u)
  IN IF cap < Len(dig) THEN [ok |-> FALSE, dig |-> << >>] ELSE [ok |-> TRUE, dig |-> dig]

(***************************************************************************)
(* State.                                                                  *)
(***************************************************************************)
VARIABLES
  ord,       \* eb_curve_get_ord: the order of the group
  EB_DEPTH,  \* build-time window width
  EB_FIX,    \* build-time variant
  EB_MIXED,  \* build-time flag: mixed additions want affine table points
  eb_curve_is_kbltz,  \* whether the curve is a Koblitz curve
  eb_curve_opt_a,     \* optimization class of the curve's coefficient a
  base,      \* the fixed point p handed to the builder
  nproc,     \* number of evaluator invocations of this run
  t,         \* the caller's table buffer
  r,         \* the caller's result point of each evaluator invocation
  pre,       \* the builder's frame
  fix        \* the evaluators' frames

config == <<ord, EB_DEPTH, EB_FIX, EB_MIXED, eb_curve_is_kbltz, eb_curve_opt_a, base, nproc>>
vars == <<ord, EB_DEPTH, EB_FIX, EB_MIXED, eb_curve_is_kbltz, eb_curve_opt_a, base, nproc,
          t, r, pre, fix>>

\* eb_mul_fix_kbltz: u = -1 when eb_curve_opt_a() == OPT_ZERO, else u = 1.
TauSign == IF eb_curve_opt_a = "OPT_ZERO" THEN -1 ELSE 1

\* Slots of the buffer the model holds: enough for every index any variant
\* forms with the scalars explored.
TabCap(w) == IF FB_BITS + 1 > 2 * Pow2(w) THEN FB_BITS + 1 ELSE 2 * Pow2(w)

\* relic_eb.h: RELIC_EB_TABLE_COMBS, the size of the single-comb table.
RELIC_EB_TABLE_COMBS == Pow2(EB_DEPTH)

\* The point the caller's result buffer holds before an evaluator is called.
Stale == [v |-> 1, norm |-> FALSE]

\* Scalars of a run with one invocation: every k whose magnitude has at most
\* as many bits as the order, and order + 1.
MaxScalar(o) == IF Pow2(bn_bits(o)) - 1 > o + 1 THEN Pow2(bn_bits(o)) - 1 ELSE o + 1
Scalars(o) == (-MaxScalar(o))..MaxScalar(o)
\* Scalars of the runs in which two invocations share the table.
SharedScalars(o) == {0, 3, -3, o - 1, 1 - o}

PreIdle ==
  [pc |-> "idle", i |-> 0, j |-> 0, l |-> 0, e |-> 0, held |-> FALSE,
   nalloc |-> 0, nfree |-> 0, thrown |-> FALSE, err |-> FALSE, wr |-> {}, nm |-> {}]
FixIdle ==
  [pc |-> "idle", k |-> 0, i |-> 0, j |-> 0, l |-> 0, d |-> 0, e |-> 0, m |-> 0,
   n |-> 0, p0 |-> 0, p1 |-> 0, w0 |-> 0, w1 |-> 0, a |-> Stale, dig |-> << >>,
   naf0 |-> << >>, unread |-> {}, clob |-> FALSE, held |-> FALSE, nalloc |-> 0,
   nfree |-> 0, thrown |-> FALSE, err |-> FALSE, reads |-> {}, didx |-> {},
   rec |-> FALSE, r0 |-> Stale]

InitCommon ==
  /\ EB_DEPTH \in Depths
  /\ EB_FIX \in Variants
  /\ EB_MIXED \in (IF EB_FIX = "COMBS" THEN BOOLEAN ELSE {FALSE})
  /\ eb_curve_is_kbltz \in (IF EB_FIX = "LWNAF" THEN BOOLEAN ELSE {FALSE})
  /\ eb_curve_opt_a \in (IF eb_curve_is_kbltz THEN {"OPT_ZERO", "OPT_ONE"} ELSE {"OPT_ONE"})
  /\ ord \in (IF eb_curve_is_kbltz THEN {KoblitzOrder(FB_BITS, TauSign)} ELSE Orders)
  /\ t = [x \in 0..(TabCap(EB_DEPTH) - 1) |-> Unset]
  /\ r = [q \in Procs |-> Stale]
  /\ pre = PreIdle
  /\ fix = [q \in Procs |-> FixIdle]

Init ==
  /\ InitCommon
  /\ base \in Points(ord)
  /\ nproc = 1

\* eb_norm_sim(t + from, t + from, n): normalizes n slots starting at `from`.
eb_norm_sim(tab, from, n) ==
  [x \in DOMAIN tab |-> IF from <= x /\ x < from + n THEN eb_norm(tab[x]) ELSE tab[x]]

\* What a read of slot x yields: its point, or anything when it was never written.
ReadT(x) == IF x \notin DOMAIN t THEN Points(ord)
            ELSE IF t[x] = Unset THEN Points(ord) ELSE {t[x]}

(***************************************************************************)
(* Builders.                                                               *)
(***************************************************************************)
HasTry(v) == v # "LWNAF"

\* The caller invokes eb_mul_pre_*(t, p) on a fresh buffer.
CallPre ==
  /\ pre.pc = "idle"
  /\ \A q \in Procs : fix[q].pc = "idle"
  /\ pre' = [pre EXCEPT !.pc = IF HasTry(EB_FIX) THEN "new" ELSE "tab"]
  /\ UNCHANGED <<config, t, r, fix>>

\* bn_null(n); TRY { bn_new(n);
pre_new ==
  /\ pre.pc = "new"
  /\ pre' = [pre EXCEPT !.pc = "ord", !.held = TRUE, !.nalloc = @ + 1]
  /\ UNCHANGED <<config, t, r, fix>>

\* eb_curve_get_ord(n); the comb builders go on to eb_set_infty(t[0]), the
\* others to their first point operation.
pre_get_ord ==
  /\ pre.pc = "ord"
  /\ pre' = [pre EXCEPT !.pc = IF EB_FIX \in {"COMBS", "COMBD"} THEN "infty" ELSE "copy"]
  /\ UNCHANGED <<config, t, r, fix>>

eb_mul_pre_basic ==
  /\ EB_FIX = "BASIC"
  /\ \/ /\ pre.pc = "copy"
        /\ t' = [t EXCEPT ![0] = eb_copy(base)]
        /\ pre' = [pre EXCEPT !.pc = "loop", !.i = 1, !.wr = @ \cup {0}]
     \/ /\ pre.pc = "loop" /\ pre.i < bn_bits(ord)
        /\ t' = [t EXCEPT ![pre.i] = eb_dbl(ord, t[pre.i - 1])]
        /\ pre' = [pre EXCEPT !.i = @ + 1, !.wr = @ \cup {pre.i}]
     \/ /\ pre.pc = "loop" /\ pre.i >= bn_bits(ord)
        /\ t' = eb_norm_sim(t, 1, bn_bits(ord) - 1)
        /\ pre' = [pre EXCEPT !.pc = "finally",
                              !.nm = @ \cup (1..(bn_bits(ord) - 1))]
  /\ UNCHANGED <<config, r, fix>>

\* A batched normalization one slot short (to test the normalization claim).
LadderNormShort(l) == l - 2
\* Number of slots eb_mul_pre_yaowi / eb_mul_pre_nafwi hand to eb_norm_sim,
\* starting at slot 1.
LadderNormCount(l) == l - 1

\* The doubling ladder of eb_mul_pre_yaowi and eb_mul_pre_nafwi: l slots,
\* slot i is slot i-1 doubled EB_DEPTH times.
pre_ladder(l) ==
  \/ /\ pre.pc = "copy"
     /\ t' = [t EXCEPT ![0] = eb_copy(base)]
     /\ pre' = [pre EXCEPT !.pc = "loop", !.i = 1, !.l = l, !.wr = @ \cup {0}]
  \/ /\ pre.pc = "loop" /\ pre.i < pre.l
     /\ t' = [t EXCEPT ![pre.i] = eb_dbl(ord, t[pre.i - 1])]
     /\ pre' = IF 1 < EB_DEPTH
               THEN [pre EXCEPT !.pc = "inner", !.j = 1, !.wr = @ \cup {pre.i}]
               ELSE [pre EXCEPT !.i = @ + 1, !.wr = @ \cup {pre.i}]
  \/ /\ pre.pc = "inner"
     /\ t' = [t EXCEPT ![pre.i] = eb_dbl(ord, t[pre.i])]
     /\ pre' = IF pre.j + 1 < EB_DEPTH
               THEN [pre EXCEPT !.j = @ + 1]
               ELSE [pre EXCEPT !.pc = "loop", !.j = @ + 1, !.i = @ + 1]
  \/ /\ pre.pc = "loop" /\ pre.i >= pre.l
     /\ t' = eb_norm_sim(t, 1, LadderNormCount(pre.l))
     /\ pre' = [pre EXCEPT !.pc = "finally", !.nm = @ \cup (1..LadderNormCount(pre.l))]

\* A YAOWI table sized for windows one bit wider (to test the index claim).
YaowiSlotsWide == CEIL(bn_bits(ord), EB_DEPTH + 1)
\* l of eb_mul_pre_yaowi and of eb_mul_pre_nafwi.
YaowiSlots == CEIL(bn_bits(ord), EB_DEPTH)
\* The NAFWI table without the slot for the extra NAF digit (to test the
\* table-size claim).
NafwiSlotsShort == CEIL(bn_bits(ord), EB_DEPTH)
NafwiSlots == CEIL(bn_bits(ord) + 1, EB_DEPTH)

eb_mul_pre_yaowi ==
  /\ EB_FIX = "YAOWI"
  /\ pre_ladder(YaowiSlots)
  /\ UNCHANGED <<config, r, fix>>

eb_mul_pre_nafwi ==
  /\ EB_FIX = "NAFWI"
  /\ pre_ladder(NafwiSlots)
  /\ UNCHANGED <<config, r, fix>>

eb_mul_pre_combs ==
  /\ EB_FIX = "COMBS"
  /\ \/ /\ pre.pc = "infty"
        /\ t' = [t EXCEPT ![0] = Infty]
        /\ pre' = [pre EXCEPT !.pc = "copy", !.wr = @ \cup {0},
                              !.l = CEIL(bn_bits(ord), EB_DEPTH)]
     \/ /\ pre.pc = "copy"
        /\ t' = [t EXCEPT ![1] = eb_copy(base)]
        /\ pre' = [pre EXCEPT !.pc = "jloop", !.j = 1, !.wr = @ \cup {1}]
     \/ /\ pre.pc = "jloop" /\ pre.j < EB_DEPTH
        /\ t' = [t EXCEPT ![Pow2(pre.j)] = eb_dbl(ord, t[Pow2(pre.j - 1)])]
        /\ pre' = [pre EXCEPT !.i = 1, !.wr = @ \cup {Pow2(pre.j)},
                              !.pc = IF 1 < pre.l THEN "idbl"
                                     ELSE IF EB_MIXED THEN "mixed" ELSE "iadd"]
     \/ /\ pre.pc = "idbl"
        /\ t' = [t EXCEPT ![Pow2(pre.j)] = eb_dbl(ord, t[Pow2(pre.j)])]
        /\ pre' = IF pre.i + 1 < pre.l
                  THEN [pre EXCEPT !.i = @ + 1]
                  ELSE [pre EXCEPT !.i = 1, !.pc = IF EB_MIXED THEN "mixed" ELSE "iadd"]
     \/ /\ pre.pc = "mixed"
        /\ t' = [t EXCEPT ![Pow2(pre.j)] = eb_norm(t[Pow2(pre.j)])]
        /\ pre' = [pre EXCEPT !.pc = "iadd", !.nm = @ \cup {Pow2(pre.j)}]
     \/ /\ pre.pc = "iadd"
        /\ t' = [t EXCEPT ![Pow2(pre.j) + pre.i] = eb_add(ord, t[pre.i], t[Pow2(pre.j)])]
        /\ pre' = IF pre.i + 1 < Pow2(pre.j)
                  THEN [pre EXCEPT !.i = @ + 1, !.wr = @ \cup {Pow2(pre.j) + pre.i}]
                  ELSE [pre EXCEPT !.i = @ + 1, !.j = @ + 1, !.pc = "jloop",
                                   !.wr = @ \cup {Pow2(pre.j) + pre.i}]
     \/ /\ pre.pc = "jloop" /\ pre.j >= EB_DEPTH
        /\ t' = eb_norm_sim(t, 2, RELIC_EB_TABLE_COMBS - 2)
        /\ pre' = [pre EXCEPT !.pc = "finally",
                              !.nm = @ \cup (2..(RELIC_EB_TABLE_COMBS - 1))]
  /\ UNCHANGED <<config, r, fix>>

eb_mul_pre_combd ==
  /\ EB_FIX = "COMBD"
  /\ \/ /\ pre.pc = "infty"
        /\ t' = [t EXCEPT ![0] = Infty]
        /\ LET d == CEIL(bn_bits(ord), EB_DEPTH)
           IN pre' = [pre EXCEPT !.pc = "copy", !.wr = @ \cup {0}, !.l = d,
                                 !.e = IF d % 2 = 0 THEN d \div 2 ELSE (d \div 2) + 1]
     \/ /\ pre.pc = "copy"
        /\ t' = [t EXCEPT ![1] = eb_copy(base)]
        /\ pre' = [pre EXCEPT !.pc = "jloop", !.j = 1, !.wr = @ \cup {1}]
     \/ /\ pre.pc = "jloop" /\ pre.j < EB_DEPTH
        /\ t' = [t EXCEPT ![Pow2(pre.j)] = eb_dbl(ord, t[Pow2(pre.j - 1)])]
        /\ pre' = [pre EXCEPT !.i = 1, !.wr = @ \cup {Pow2(pre.j)},
                              !.pc = IF 1 < pre.l THEN "idbl" ELSE "iadd"]
     \/ /\ pre.pc = "idbl"
        /\ t' = [t EXCEPT ![Pow2(pre.j)] = eb_dbl(ord, t[Pow2(pre.j)])]
        /\ pre' = IF pre.i + 1 < pre.l
                  THEN [pre EXCEPT !.i = @ + 1]
                  ELSE [pre EXCEPT !.i = 1, !.pc = "iadd"]
     \/ /\ pre.pc = "iadd"
        /\ t' = [t EXCEPT ![Pow2(pre.j) + pre.i] = eb_add(ord, t[Pow2(pre.j)], t[pre.i])]
        /\ pre' = IF pre.i + 1 < Pow2(pre.j)
                  THEN [pre EXCEPT !.i = @ + 1, !.wr = @ \cup {Pow2(pre.j) + pre.i}]
                  ELSE [pre EXCEPT !.i = @ + 1, !.j = @ + 1, !.pc = "jloop",
                                   !.wr = @ \cup {Pow2(pre.j) + pre.i}]
     \/ /\ pre.pc = "jloop" /\ pre.j >= EB_DEPTH
        /\ t' = [t EXCEPT ![Pow2(EB_DEPTH)] = Infty]
        /\ pre' = [pre EXCEPT !.pc = "hloop", !.j = 1, !.wr = @ \cup {Pow2(EB_DEPTH)}]
     \/ /\ pre.pc = "hloop" /\ pre.j < Pow2(EB_DEPTH)
        /\ t' = [t EXCEPT ![Pow2(EB_DEPTH) + pre.j] = eb_dbl(ord, t[pre.j])]
        /\ pre' = IF 1 < pre.e
                  THEN [pre EXCEPT !.pc = "hdbl", !.i = 1,
                                   !.wr = @ \cup {Pow2(EB_DEPTH) + pre.j}]
                  ELSE [pre EXCEPT !.i = 1, !.j = @ + 1,
                                   !.wr = @ \cup {Pow2(EB_DEPTH) + pre.j}]
     \/ /\ pre.pc = "hdbl"
        /\ t' = [t EXCEPT ![Pow2(EB_DEPTH) + pre.j] = eb_dbl(ord, t[Pow2(EB_DEPTH) + pre.j])]
        /\ pre' = IF pre.i + 1 < pre.e
                  THEN [pre EXCEPT !.i = @ + 1]
                  ELSE [pre EXCEPT !.i = @ + 1, !.j = @ + 1, !.pc = "hloop"]
     \/ /\ pre.pc = "hloop" /\ pre.j >= Pow2(EB_DEPTH)
        /\ t' = eb_norm_sim(t, 2, Pow2(EB_DEPTH) - 2)
        /\ pre' = [pre EXCEPT !.pc = "norm2", !.nm = @ \cup (2..(Pow2(EB_DEPTH) - 1))]
     \/ /\ pre.pc = "norm2"
        /\ t' = eb_norm_sim(t, Pow2(EB_DEPTH) + 1, Pow2(EB_DEPTH) - 1)
        /\ pre' = [pre EXCEPT !.pc = "finally",
                              !.nm = @ \cup ((Pow2(EB_DEPTH) + 1)..(2 * Pow2(EB_DEPTH) - 1))]
  /\ UNCHANGED <<config, r, fix>>

\* eb_tab(t, p, w): one slot per odd digit magnitude below 2^(w-1); slot i
\* holds (2i+1)p, or alpha_(2i+1) p on a Koblitz curve; slot 0 is a copy of
\* p, the others are normalized.
eb_tab(o, p, w) ==
  [x \in 0..(Pow2(w - 2) - 1) |->
     IF x = 0 THEN eb_copy(p)
     ELSE IF eb_curve_is_kbltz
     THEN eb_norm(Mk(o, TauEval(TauAlpha(2 * x + 1, w, TauSign),
                                TauLambda(o, FB_BITS, TauSign)) * p.v))
     ELSE eb_norm(Mk(o, (2 * x + 1) * p.v))]

eb_mul_pre_lwnaf ==
  /\ EB_FIX = "LWNAF"
  /\ pre.pc = "tab"
  /\ LET tab == eb_tab(ord, base, EB_DEPTH)
     IN /\ t' = [x \in DOMAIN t |-> IF x \in DOMAIN tab THEN tab[x] ELSE t[x]]
        /\ pre' = [pre EXCEPT !.pc = "ret", !.wr = DOMAIN tab, !.nm = DOMAIN tab \ {0}]
  /\ UNCHANGED <<config, r, fix>>

\* Whether the builder stands at a collaborator call that can fail (every
\* position inside a TRY block is one, except the eb_set_infty(t[0]) of the
\* comb builders and the eb_set_infty between the two combs of
\* eb_mul_pre_combd).
PreAtCall ==
  /\ pre.pc \notin {"idle", "infty", "catch", "finally", "ret"}
  /\ ~(EB_FIX = "COMBD" /\ pre.pc = "jloop" /\ pre.j >= EB_DEPTH)

\* A collaborator call of a builder fails: control leaves the TRY block (in
\* eb_mul_pre_lwnaf, which has none, the failure goes straight to the caller).
pre_throw ==
  /\ PreAtCall
  /\ pre' = IF HasTry(EB_FIX) THEN [pre EXCEPT !.pc = "catch", !.thrown = TRUE]
            ELSE [pre EXCEPT !.pc = "ret", !.thrown = TRUE, !.err = TRUE]
  /\ UNCHANGED <<config, t, r, fix>>

\* CATCH_ANY { THROW(ERR_CAUGHT); }
pre_catch ==
  /\ pre.pc = "catch"
  /\ pre' = [pre EXCEPT !.pc = "finally", !.err = TRUE]
  /\ UNCHANGED <<config, t, r, fix>>

\* FINALLY { bn_free(n); }: releases n when it was acquired.
pre_finally ==
  /\ pre.pc = "finally"
  /\ pre' = [pre EXCEPT !.pc = "ret", !.held = FALSE,
                        !.nfree = IF pre.held THEN @ + 1 ELSE @]
  /\ UNCHANGED <<config, t, r, fix>>

PreNext ==
  \/ CallPre \/ pre_new \/ pre_get_ord
  \/ eb_mul_pre_basic \/ eb_mul_pre_yaowi \/ eb_mul_pre_nafwi
  \/ eb_mul_pre_combs \/ eb_mul_pre_combd \/ eb_mul_pre_lwnaf
  \/ pre_throw \/ pre_catch \/ pre_finally

(***************************************************************************)
(* Evaluators.                                                             *)
(***************************************************************************)
FixHasTry(v) == v \in {"YAOWI", "NAFWI", "COMBS", "COMBD"}

\* Where control goes once the walk is over: FINALLY, or back to the caller.
Done == IF FixHasTry(EB_FIX) THEN "finally" ELSE "ret"
\* After eb_norm(r, r): if (bn_sign(k) == BN_NEG) eb_neg(r, r);
\* An evaluator that ignores the sign of k (to test the sign claim).
AfterNormNoSign(k) == Done
AfterNorm(k) == IF bn_sign_neg(k) THEN "neg" ELSE Done

\* The caller invokes eb_mul_fix_*(r, t, k), on a completed table or, with
\* k = 0, on any table.
CallFix(self) ==
  /\ self <= nproc
  /\ fix[self].pc = "idle"
  /\ pre.pc \in {"idle", "ret"}
  /\ \E k \in (IF nproc = 1 THEN Scalars(ord) ELSE SharedScalars(ord)) :
       /\ (pre.pc = "ret" /\ ~pre.err) \/ k = 0
       /\ fix' = [fix EXCEPT ![self] = [@ EXCEPT !.pc = "entry", !.k = k, !.r0 = r[self]]]
  /\ UNCHANGED <<config, t, r, pre>>

\* An early return that leaves r as the caller passed it (to test the
\* zero-scalar claim).
ZeroReturnKeep(self) ==
  /\ fix[self].pc = "entry"
  /\ bn_is_zero(fix[self].k)
  /\ r' = r
  /\ fix' = [fix EXCEPT ![self] = [@ EXCEPT !.pc = "ret"]]

\* if (bn_is_zero(k)) { eb_set_infty(r); return; }
ZeroReturn(self) ==
  /\ fix[self].pc = "entry"
  /\ bn_is_zero(fix[self].k)
  /\ r' = [r EXCEPT ![self] = Infty]
  /\ fix' = [fix EXCEPT ![self] = [@ EXCEPT !.pc = "ret"]]

eb_mul_fix_basic(self) ==
  LET f == fix[self] IN
  /\ EB_FIX = "BASIC"
  /\ \/ ZeroReturn(self)
     \/ /\ f.pc = "entry" /\ ~bn_is_zero(f.k)
        /\ r' = [r EXCEPT ![self] = Infty]
        /\ fix' = [fix EXCEPT ![self] = [f EXCEPT !.pc = "loop", !.i = 0]]
     \/ /\ f.pc = "loop" /\ f.i < bn_bits(f.k) /\ bn_get_bit(f.k, f.i) = 1
        /\ \E q \in ReadT(f.i) : r' = [r EXCEPT ![self] = eb_add(ord, r[self], q)]
        /\ fix' = [fix EXCEPT ![self] = [f EXCEPT !.i = @ + 1, !.reads = @ \cup {f.i}]]
     \/ /\ f.pc = "loop" /\ f.i < bn_bits(f.k) /\ bn_get_bit(f.k, f.i) = 0
        /\ fix' = [fix EXCEPT ![self] = [f EXCEPT !.i = @ + 1]]
        /\ UNCHANGED r
     \/ /\ f.pc = "loop" /\ f.i >= bn_bits(f.k)
        /\ r' = [r EXCEPT ![self] = eb_norm(r[self])]
        /\ fix' = [fix EXCEPT ![self] = [f EXCEPT !.pc = AfterNorm(f.k)]]
  /\ UNCHANGED <<config, t, pre>>

\* eb_null(a); TRY { eb_new(a); eb_set_infty(r); eb_set_infty(a);
fix_new_a(self) ==
  LET f == fix[self] IN
  /\ EB_FIX \in {"YAOWI", "NAFWI"}
  /\ \/ ZeroReturn(self)
     \/ /\ f.pc = "entry" /\ ~bn_is_zero(f.k)
        /\ fix' = [fix EXCEPT ![self] = [f EXCEPT !.pc = "new"]]
        /\ UNCHANGED r
     \/ /\ f.pc = "new"
        /\ r' = [r EXCEPT ![self] = Infty]
        /\ fix' = [fix EXCEPT ![self] =
                     [f EXCEPT !.pc = "rec", !.held = TRUE, !.nalloc = @ + 1, !.a = Infty]]
  /\ UNCHANGED <<config, t, pre>>

eb_mul_fix_yaowi(self) ==
  LET f == fix[self] IN
  /\ EB_FIX = "YAOWI"
  /\ \/ /\ f.pc = "rec"
        /\ LET res == bn_rec_win(CEIL(FB_BITS, EB_DEPTH), f.k, EB_DEPTH)
           IN fix' = [fix EXCEPT ![self] =
                        IF res.ok
                        THEN [f EXCEPT !.pc = "loop", !.dig = res.dig, !.l = Len(res.dig),
                                       !.rec = TRUE, !.j = Pow2(EB_DEPTH) - 1, !.i = 0]
                        ELSE [f EXCEPT !.pc = "catch", !.thrown = TRUE, !.rec = TRUE]]
        /\ UNCHANGED r
     \/ /\ f.pc = "loop" /\ f.j >= 1 /\ f.i < f.l /\ f.dig[f.i + 1] = f.j
        /\ \E q \in ReadT(f.i) :
             fix' = [fix EXCEPT ![self] = [f EXCEPT !.a = eb_add(ord, f.a, q), !.i = @ + 1,
                                                    !.reads = @ \cup {f.i},
                                                    !.didx = @ \cup {f.i}]]
        /\ UNCHANGED r
     \/ /\ f.pc = "loop" /\ f.j >= 1 /\ f.i < f.l /\ f.dig[f.i + 1] # f.j
        /\ fix' = [fix EXCEPT ![self] = [f EXCEPT !.i = @ + 1, !.didx = @ \cup {f.i}]]
        /\ UNCHANGED r
     \/ /\ f.pc = "loop" /\ f.j >= 1 /\ f.i >= f.l
        /\ r' = [r EXCEPT ![self] = eb_add(ord, r[self], f.a)]
        /\ fix' = [fix EXCEPT ![self] = [f EXCEPT !.j = @ - 1, !.i = 0]]
     \/ /\ f.pc = "loop" /\ f.j < 1
        /\ r' = [r EXCEPT ![self] = eb_norm(r[self])]
        /\ fix' = [fix EXCEPT ![self] = [f EXCEPT !.pc = AfterNorm(f.k)]]
  /\ UNCHANGED <<config, t, pre>>

\* The inner loop of the repacking of eb_mul_fix_nafwi: the digits of group i,
\* most significant first, shifted into a char.
RECURSIVE PackGroup(_, _, _, _, _)
PackGroup(dig, i, j, l, w) ==
  IF j < 0 THEN w
  ELSE PackGroup(dig, i, j - 1, l,
                 IF i * EB_DEPTH + j < l
                 THEN ToInt8(ToInt8(2 * w) + dig[i * EB_DEPTH + j + 1])
                 ELSE w)

\* The bound m with the two parities exchanged (to test the repacking claim).
NafwiMaxSwapped ==
  IF EB_DEPTH % 2 = 1 THEN (Pow2(EB_DEPTH + 1) - 2) \div 3
  ELSE (Pow2(EB_DEPTH + 1) - 1) \div 3

\* m of eb_mul_fix_nafwi: the largest magnitude of a packed digit.
NafwiMax ==
  IF EB_DEPTH % 2 = 0 THEN (Pow2(EB_DEPTH + 1) - 2) \div 3
  ELSE (Pow2(EB_DEPTH + 1) - 1) \div 3

eb_mul_fix_nafwi(self) ==
  LET f == fix[self] IN
  /\ EB_FIX = "NAFWI"
  /\ \/ /\ f.pc = "rec"
        /\ LET res == bn_rec_naf(FB_BITS + 1, f.k, 2)
           IN fix' = [fix EXCEPT ![self] =
                        IF res.ok
                        THEN [f EXCEPT !.pc = "pack", !.dig = res.dig, !.l = Len(res.dig),
                                       !.naf0 = res.dig, !.unread = 0..(Len(res.dig) - 1),
                                       !.rec = TRUE, !.d = CEIL(Len(res.dig), EB_DEPTH),
                                       !.i = 0]
                        ELSE [f EXCEPT !.pc = "catch", !.thrown = TRUE, !.rec = TRUE]]
        /\ UNCHANGED r
     \/ /\ f.pc = "pack"
        /\ LET w    == PackGroup(f.dig, f.i, EB_DEPTH - 1, f.l, 0)
               left == f.unread \ {x \in 0..(f.l - 1) :
                                     f.i * EB_DEPTH <= x /\ x < (f.i + 1) * EB_DEPTH}
               g    == [f EXCEPT !.dig = [@ EXCEPT ![f.i + 1] = ToInt8(w)],
                                 !.unread = left, !.clob = @ \/ (f.i \in left),
                                 !.didx = @ \cup {f.i}
                                            \cup {x \in 0..(f.l - 1) :
                                                    f.i * EB_DEPTH <= x
                                                    /\ x < (f.i + 1) * EB_DEPTH}]
           IN fix' = [fix EXCEPT ![self] =
                        IF f.i + 1 < f.d
                        THEN [g EXCEPT !.i = @ + 1]
                        ELSE [g EXCEPT !.pc = "loop", !.m = NafwiMax, !.j = NafwiMax,
                                       !.i = 0]]
        /\ UNCHANGED r
     \/ /\ f.pc = "loop" /\ f.j >= 1 /\ f.i < f.d /\ f.dig[f.i + 1] = f.j
        /\ \E q \in ReadT(f.i) :
             fix' = [fix EXCEPT ![self] = [f EXCEPT !.a = eb_add(ord, f.a, q), !.i = @ + 1,
                                                    !.reads = @ \cup {f.i},
                                                    !.didx = @ \cup {f.i}]]
        /\ UNCHANGED r
     \/ /\ f.pc = "loop" /\ f.j >= 1 /\ f.i < f.d /\ f.dig[f.i + 1] = -f.j
        /\ \E q \in ReadT(f.i) :
             fix' = [fix EXCEPT ![self] = [f EXCEPT !.a = eb_sub(ord, f.a, q), !.i = @ + 1,
                                                    !.reads = @ \cup {f.i},
                                                    !.didx = @ \cup {f.i}]]
        /\ UNCHANGED r
     \/ /\ f.pc = "loop" /\ f.j >= 1 /\ f.i < f.d
        /\ f.dig[f.i + 1] # f.j /\ f.dig[f.i + 1] # -f.j
        /\ fix' = [fix EXCEPT ![self] = [f EXCEPT !.i = @ + 1, !.didx = @ \cup {f.i}]]
        /\ UNCHANGED r
     \/ /\ f.pc = "loop" /\ f.j >= 1 /\ f.i >= f.d
        /\ r' = [r EXCEPT ![self] = eb_add(ord, r[self], f.a)]
        /\ fix' = [fix EXCEPT ![self] = [f EXCEPT !.j = @ - 1, !.i = 0]]
     \/ /\ f.pc = "loop" /\ f.j < 1
        /\ r' = [r EXCEPT ![self] = eb_norm(r[self])]
        /\ fix' = [fix EXCEPT ![self] = [f EXCEPT !.pc = AfterNorm(f.k)]]
  /\ UNCHANGED <<config, t, pre>>

\* A comb whose positions are stepped by step + 1 (to test the correctness
\* claim).
RECURSIVE CombDigitSkew(_, _, _, _, _, _, _)
CombDigitSkew(k, p, step, n, en, j, w) ==
  IF j < 0 THEN w
  ELSE CombDigitSkew(k, p - step - 1, step, n, en, j - 1,
                     2 * w + (IF en /\ p >= 0 /\ p < n /\ bn_get_bit(k, p) = 1 THEN 1 ELSE 0))

\* The digit loops of the comb evaluators: for (j = EB_DEPTH - 1; j >= 0;
\* j--, p -= step) { w = w << 1; if (en && p < n && bn_get_bit(k, p)) w |= 1; }
RECURSIVE CombDigit(_, _, _, _, _, _, _)
CombDigit(k, p, step, n, en, j, w) ==
  IF j < 0 THEN w
  ELSE CombDigit(k, p - step, step, n, en, j - 1,
                 2 * w + (IF en /\ p < n /\ bn_get_bit(k, p) = 1 THEN 1 ELSE 0))

\* bn_null(ord); TRY { bn_new(ord);
fix_new_n(self) ==
  LET f == fix[self] IN
  /\ EB_FIX \in {"COMBS", "COMBD"}
  /\ \/ ZeroReturn(self)
     \/ /\ f.pc = "entry" /\ ~bn_is_zero(f.k)
        /\ fix' = [fix EXCEPT ![self] = [f EXCEPT !.pc = "new"]]
        /\ UNCHANGED r
     \/ /\ f.pc = "new"
        /\ fix' = [fix EXCEPT ![self] =
                     [f EXCEPT !.pc = "ord", !.held = TRUE, !.nalloc = @ + 1]]
        /\ UNCHANGED r
  /\ UNCHANGED <<config, t, pre>>

eb_mul_fix_combs(self) ==
  LET f == fix[self] IN
  /\ EB_FIX = "COMBS"
  /\ \/ /\ f.pc = "ord"
        /\ LET l  == CEIL(bn_bits(ord), EB_DEPTH)
               n  == bn_bits(f.k)
               p0 == EB_DEPTH * l - 1
           IN fix' = [fix EXCEPT ![self] =
                        [f EXCEPT !.pc = "copy", !.l = l, !.n = n, !.p0 = p0 - 1,
                                  !.w0 = CombDigit(f.k, p0, l, n, TRUE, EB_DEPTH - 1, 0)]]
        /\ UNCHANGED r
     \/ /\ f.pc = "copy"
        /\ \E q \in ReadT(f.w0) : r' = [r EXCEPT ![self] = eb_copy(q)]
        /\ fix' = [fix EXCEPT ![self] = [f EXCEPT !.pc = "loop", !.i = f.l - 2,
                                                  !.reads = @ \cup {f.w0}]]
     \/ /\ f.pc = "loop" /\ f.i >= 0
        /\ r' = [r EXCEPT ![self] = eb_dbl(ord, r[self])]
        /\ LET w == CombDigit(f.k, f.p0, f.l, f.n, TRUE, EB_DEPTH - 1, 0)
           IN fix' = [fix EXCEPT ![self] =
                        IF w > 0
                        THEN [f EXCEPT !.pc = "add", !.w0 = w, !.p0 = @ - 1]
                        ELSE [f EXCEPT !.w0 = w, !.p0 = @ - 1, !.i = @ - 1]]
     \/ /\ f.pc = "add"
        /\ \E q \in ReadT(f.w0) : r' = [r EXCEPT ![self] = eb_add(ord, r[self], q)]
        /\ fix' = [fix EXCEPT ![self] = [f EXCEPT !.pc = "loop", !.i = @ - 1,
                                                  !.reads = @ \cup {f.w0}]]
     \/ /\ f.pc = "loop" /\ f.i < 0
        /\ r' = [r EXCEPT ![self] = eb_norm(r[self])]
        /\ fix' = [fix EXCEPT ![self] = [f EXCEPT !.pc = AfterNorm(f.k)]]
  /\ UNCHANGED <<config, t, pre>>

eb_mul_fix_combd(self) ==
  LET f == fix[self] IN
  /\ EB_FIX = "COMBD"
  /\ \/ /\ f.pc = "ord"
        /\ LET d == CEIL(bn_bits(ord), EB_DEPTH)
               e == IF d % 2 = 0 THEN d \div 2 ELSE (d \div 2) + 1
           IN fix' = [fix EXCEPT ![self] =
                        [f EXCEPT !.pc = "loop", !.d = d, !.e = e, !.n = bn_bits(f.k),
                                  !.p1 = (e - 1) + (EB_DEPTH - 1) * d, !.i = e - 1]]
        /\ r' = [r EXCEPT ![self] = Infty]
     \/ /\ f.pc = "loop" /\ f.i >= 0
        /\ r' = [r EXCEPT ![self] = eb_dbl(ord, r[self])]
        /\ fix' = [fix EXCEPT ![self] =
                     [f EXCEPT !.pc = "add0", !.p1 = @ - 1,
                               !.w0 = CombDigit(f.k, f.p1, f.d, f.n, TRUE, EB_DEPTH - 1, 0),
                               !.w1 = CombDigit(f.k, f.p1 + f.e, f.d, f.n, f.i + f.e < f.d,
                                                EB_DEPTH - 1, 0)]]
     \/ /\ f.pc = "add0"
        /\ \E q \in ReadT(f.w0) : r' = [r EXCEPT ![self] = eb_add(ord, r[self], q)]
        /\ fix' = [fix EXCEPT ![self] = [f EXCEPT !.pc = "add1", !.reads = @ \cup {f.w0}]]
     \/ /\ f.pc = "add1"
        /\ \E q \in ReadT(Pow2(EB_DEPTH) + f.w1) :
             r' = [r EXCEPT ![self] = eb_add(ord, r[self], q)]
        /\ fix' = [fix EXCEPT ![self] = [f EXCEPT !.pc = "loop", !.i = @ - 1,
                                                  !.reads = @ \cup {Pow2(EB_DEPTH) + f.w1}]]
     \/ /\ f.pc = "loop" /\ f.i < 0
        /\ r' = [r EXCEPT ![self] = eb_norm(r[self])]
        /\ fix' = [fix EXCEPT ![self] = [f EXCEPT !.pc = AfterNorm(f.k)]]
  /\ UNCHANGED <<config, t, pre>>

\* A leading-digit test with the branches exchanged (to test the
\* leading-digit claim).
LeadPositiveSwapped(n) == n < 0
\* if (n > 0) on the most significant digit: copy the slot, else (kbltz)
\* negate it.
LeadPositive(n) == n > 0

\* Values of the byte in front of tnaf[0] (an int8_t the function never
\* wrote).
StaleBytes == (-128)..127

\* eb_mul_fix_lwnaf on a Koblitz curve: eb_mul_fix_kbltz.
eb_mul_fix_kbltz(self) ==
  LET f == fix[self] IN
  /\ EB_FIX = "LWNAF" /\ eb_curve_is_kbltz
  /\ \/ ZeroReturn(self)
     \/ /\ f.pc = "entry" /\ ~bn_is_zero(f.k)
        /\ fix' = [fix EXCEPT ![self] = [f EXCEPT !.pc = "rec"]]
        /\ UNCHANGED r
     \/ /\ f.pc = "rec"
        /\ LET res == bn_rec_tnaf(FB_BITS + 8, f.k, TauSign, FB_BITS, EB_DEPTH)
           IN fix' = [fix EXCEPT ![self] =
                        IF res.ok
                        THEN [f EXCEPT !.pc = "first", !.dig = res.dig, !.l = Len(res.dig),
                                       !.rec = TRUE,
                                       !.didx = @ \cup {Len(res.dig) - 1}]
                        ELSE [f EXCEPT !.pc = "ret", !.thrown = TRUE, !.err = TRUE, !.rec = TRUE]]
        /\ UNCHANGED r
     \* The code does not test l.  Were the recoding empty, n = tnaf[l - 1]
     \* would have read the byte below the buffer (the read is recorded
     \* with the recoding, which it follows): n is any
     \* int8_t value, and the slot it selects is copied or negated into r.
     \* The loop is skipped (i = -2), so n is not read again and the frame
     \* does not keep it.
     \/ /\ f.pc = "first" /\ f.l = 0
        /\ \E n \in StaleBytes :
             LET x == IF n > 0 THEN n \div 2 ELSE (-n) \div 2 IN
             /\ \E q \in ReadT(x) :
                  r' = [r EXCEPT ![self] = IF n > 0 THEN eb_copy(q) ELSE eb_neg(ord, q)]
             /\ fix' = [fix EXCEPT ![self] = [f EXCEPT !.pc = "loop", !.i = f.l - 2,
                                                       !.reads = @ \cup {x}]]
     \/ /\ f.pc = "first" /\ f.l > 0 /\ LeadPositive(f.dig[f.l])
        /\ \E q \in ReadT(f.dig[f.l] \div 2) : r' = [r EXCEPT ![self] = eb_copy(q)]
        /\ fix' = [fix EXCEPT ![self] = [f EXCEPT !.pc = "loop", !.i = f.l - 2,
                                                  !.n = f.dig[f.l],
                                                  !.reads = @ \cup {f.dig[f.l] \div 2}]]
     \/ /\ f.pc = "first" /\ f.l > 0 /\ ~LeadPositive(f.dig[f.l])
        /\ \E q \in ReadT((-f.dig[f.l]) \div 2) : r' = [r EXCEPT ![self] = eb_neg(ord, q)]
        /\ fix' = [fix EXCEPT ![self] = [f EXCEPT !.pc = "loop", !.i = f.l - 2,
                                                  !.n = f.dig[f.l],
                                                  !.reads = @ \cup {(-f.dig[f.l]) \div 2}]]
     \/ /\ f.pc = "loop" /\ f.i >= 0
        /\ r' = [r EXCEPT ![self] = eb_frb(ord, r[self], FB_BITS, TauSign)]
        /\ fix' = [fix EXCEPT ![self] =
                     IF f.dig[f.i + 1] # 0
                     THEN [f EXCEPT !.pc = "add", !.n = f.dig[f.i + 1],
                                    !.didx = @ \cup {f.i}]
                     ELSE [f EXCEPT !.n = 0, !.i = @ - 1, !.didx = @ \cup {f.i}]]
     \/ /\ f.pc = "add" /\ f.n > 0
        /\ \E q \in ReadT(f.n \div 2) : r' = [r EXCEPT ![self] = eb_add(ord, r[self], q)]
        /\ fix' = [fix EXCEPT ![self] = [f EXCEPT !.pc = "loop", !.i = @ - 1,
                                                  !.reads = @ \cup {f.n \div 2}]]
     \/ /\ f.pc = "add" /\ f.n < 0
        /\ \E q \in ReadT((-f.n) \div 2) :
             r' = [r EXCEPT ![self] = eb_sub(ord, r[self], q)]
        /\ fix' = [fix EXCEPT ![self] = [f EXCEPT !.pc = "loop", !.i = @ - 1,
                                                  !.reads = @ \cup {(-f.n) \div 2}]]
     \/ /\ f.pc = "loop" /\ f.i < 0
        /\ r' = [r EXCEPT ![self] = eb_norm(r[self])]
        /\ fix' = [fix EXCEPT ![self] = [f EXCEPT !.pc = AfterNorm(f.k)]]
  /\ UNCHANGED <<config, t, pre>>

\* eb_mul_fix_lwnaf on a curve without endomorphism: eb_mul_fix_plain.
eb_mul_fix_plain(self) ==
  LET f == fix[self] IN
  /\ EB_FIX = "LWNAF" /\ ~eb_curve_is_kbltz
  /\ \/ ZeroReturn(self)
     \/ /\ f.pc = "entry" /\ ~bn_is_zero(f.k)
        /\ fix' = [fix EXCEPT ![self] = [f EXCEPT !.pc = "rec"]]
        /\ UNCHANGED r
     \/ /\ f.pc = "rec"
        /\ LET res == bn_rec_naf(FB_BITS + 1, f.k, EB_DEPTH)
           IN fix' = [fix EXCEPT ![self] =
                        IF res.ok
                        THEN [f EXCEPT !.pc = "first", !.dig = res.dig, !.l = Len(res.dig),
                                       !.rec = TRUE, !.n = res.dig[Len(res.dig)],
                                       !.didx = @ \cup {Len(res.dig) - 1}]
                        ELSE [f EXCEPT !.pc = "ret", !.thrown = TRUE, !.err = TRUE, !.rec = TRUE]]
        /\ UNCHANGED r
     \/ /\ f.pc = "first" /\ LeadPositive(f.n)
        /\ \E q \in ReadT(f.n \div 2) : r' = [r EXCEPT ![self] = eb_copy(q)]
        /\ fix' = [fix EXCEPT ![self] = [f EXCEPT !.pc = "loop", !.i = f.l - 2,
                                                  !.reads = @ \cup {f.n \div 2}]]
     \/ /\ f.pc = "first" /\ ~LeadPositive(f.n)
        /\ fix' = [fix EXCEPT ![self] = [f EXCEPT !.pc = "loop", !.i = f.l - 2]]
        /\ UNCHANGED r
     \/ /\ f.pc = "loop" /\ f.i >= 0
        /\ r' = [r EXCEPT ![self] = eb_dbl(ord, r[self])]
        /\ fix' = [fix EXCEPT ![self] =
                     IF f.dig[f.i + 1] # 0
                     THEN [f EXCEPT !.pc = "add", !.n = f.dig[f.i + 1],
                                    !.didx = @ \cup {f.i}]
                     ELSE [f EXCEPT !.n = 0, !.i = @ - 1, !.didx = @ \cup {f.i}]]
     \/ /\ f.pc = "add" /\ f.n > 0
        /\ \E q \in ReadT(f.n \div 2) : r' = [r EXCEPT ![self] = eb_add(ord, r[self], q)]
        /\ fix' = [fix EXCEPT ![self] = [f EXCEPT !.pc = "loop", !.i = @ - 1,
                                                  !.reads = @ \cup {f.n \div 2}]]
     \/ /\ f.pc = "add" /\ f.n < 0
        /\ \E q \in ReadT((-f.n) \div 2) :
             r' = [r EXCEPT ![self] = eb_sub(ord, r[self], q)]
        /\ fix' = [fix EXCEPT ![self] = [f EXCEPT !.pc = "loop", !.i = @ - 1,
                                                  !.reads = @ \cup {(-f.n) \div 2}]]
     \/ /\ f.pc = "loop" /\ f.i < 0
        /\ r' = [r EXCEPT ![self] = eb_norm(r[self])]
        /\ fix' = [fix EXCEPT ![self] = [f EXCEPT !.pc = AfterNorm(f.k)]]
  /\ UNCHANGED <<config, t, pre>>

\* A final negation that also negates slot 0 of the shared table in place (to
\* test the read-only claim).
fix_neg_table(self) ==
  /\ fix[self].pc = "neg"
  /\ r' = [r EXCEPT ![self] = eb_neg(ord, r[self])]
  /\ t' = [t EXCEPT ![0] = eb_neg(ord, t[0])]
  /\ fix' = [fix EXCEPT ![self] = [@ EXCEPT !.pc = Done]]
  /\ UNCHANGED <<config, pre>>

\* if (bn_sign(k) == BN_NEG) { eb_neg(r, r); }
fix_neg(self) ==
  /\ fix[self].pc = "neg"
  /\ r' = [r EXCEPT ![self] = eb_neg(ord, r[self])]
  /\ fix' = [fix EXCEPT ![self] = [@ EXCEPT !.pc = Done]]
  /\ UNCHANGED <<config, t, pre>>

\* Whether the evaluator stands at a collaborator call that can fail.
FixAtCall(f) ==
  /\ f.pc \notin {"idle", "entry", "pack", "catch", "finally", "ret"}
  /\ IF EB_FIX = "BASIC" /\ f.pc = "loop"
     THEN IF f.i >= bn_bits(f.k) THEN TRUE ELSE bn_get_bit(f.k, f.i) = 1
     ELSE IF EB_FIX = "YAOWI" /\ f.pc = "loop"
     THEN IF f.j < 1 \/ f.i >= f.l THEN TRUE ELSE f.dig[f.i + 1] = f.j
     ELSE IF EB_FIX = "NAFWI" /\ f.pc = "loop"
     THEN IF f.j < 1 \/ f.i >= f.d THEN TRUE
          ELSE f.dig[f.i + 1] = f.j \/ f.dig[f.i + 1] = -f.j
     ELSE IF EB_FIX = "LWNAF" /\ f.pc = "first" THEN eb_curve_is_kbltz \/ f.n > 0
     ELSE TRUE

\* The digit the Yao loops compare with j before they call eb_add or eb_sub:
\* win[i] == j in eb_mul_fix_yaowi, naf[i] == j and naf[i] == -j in
\* eb_mul_fix_nafwi.  The comparison has read index i when the call is made.
DigitReadAtCall(f) ==
  IF /\ EB_FIX \in {"YAOWI", "NAFWI"} /\ f.pc = "loop" /\ f.j >= 1
     /\ f.i < (IF EB_FIX = "YAOWI" THEN f.l ELSE f.d)
  THEN {f.i} ELSE {}

\* A collaborator call of an evaluator fails: control leaves the TRY block (in
\* eb_mul_fix_basic and eb_mul_fix_plain, which have none, the failure goes
\* straight to the caller).
fix_throw(self) ==
  /\ FixAtCall(fix[self])
  /\ fix' = [fix EXCEPT ![self] =
               IF FixHasTry(EB_FIX)
               THEN [@ EXCEPT !.pc = "catch", !.thrown = TRUE,
                              !.didx = @ \cup DigitReadAtCall(fix[self])]
               ELSE [@ EXCEPT !.pc = "ret", !.thrown = TRUE, !.err = TRUE,
                              !.didx = @ \cup DigitReadAtCall(fix[self])]]
  /\ UNCHANGED <<config, t, r, pre>>

\* A CATCH block that swallows the failure (to test the failure claim).
fix_catch_swallow(self) ==
  /\ fix[self].pc = "catch"
  /\ fix' = [fix EXCEPT ![self] = [@ EXCEPT !.pc = "finally"]]
  /\ UNCHANGED <<config, t, r, pre>>

\* CATCH_ANY { THROW(ERR_CAUGHT); }
fix_catch(self) ==
  /\ fix[self].pc = "catch"
  /\ fix' = [fix EXCEPT ![self] = [@ EXCEPT !.pc = "finally", !.err = TRUE]]
  /\ UNCHANGED <<config, t, r, pre>>

\* A FINALLY block that releases nothing (to test the release claim).
fix_finally_leak(self) ==
  /\ fix[self].pc = "finally"
  /\ fix' = [fix EXCEPT ![self] = [@ EXCEPT !.pc = "ret"]]
  /\ UNCHANGED <<config, t, r, pre>>

\* FINALLY { eb_free(a); } or { bn_free(ord); }: releases the temporary when
\* it was acquired.
fix_finally(self) ==
  /\ fix[self].pc = "finally"
  /\ fix' = [fix EXCEPT ![self] = [@ EXCEPT !.pc = "ret", !.held = FALSE,
                                            !.nfree = IF fix[self].held THEN @ + 1 ELSE @]]
  /\ UNCHANGED <<config, t, r, pre>>

FixNext(self) ==
  \/ CallFix(self)
  \/ eb_mul_fix_basic(self) \/ fix_new_a(self) \/ eb_mul_fix_yaowi(self)
  \/ eb_mul_fix_nafwi(self) \/ fix_new_n(self) \/ eb_mul_fix_combs(self)
  \/ eb_mul_fix_combd(self) \/ eb_mul_fix_kbltz(self) \/ eb_mul_fix_plain(self)
  \/ fix_neg(self)
  \/ fix_throw(self) \/ fix_catch(self) \/ fix_finally(self)

Next == PreNext \/ \E self \in Procs : FixNext(self)

\* One builder run, then one evaluator invocation.
Spec == Init /\ [][Next]_vars

\* Two evaluator invocations share the table built from the generator of the
\* group of order 7 (of the Koblitz order on a Koblitz curve).
InitShared ==
  /\ InitCommon
  /\ eb_curve_is_kbltz \/ ord = 7
  /\ base = [v |-> 1, norm |-> TRUE]
  /\ nproc = 2
SpecShared == InitShared /\ [][Next]_vars

(***************************************************************************)
(* Properties.                                                             *)
(***************************************************************************)
\* An evaluator invocation has returned to its caller without signalling.
Returned(q) == fix[q].pc = "ret" /\ ~fix[q].err
\* The builder has returned without signalling: the table is complete.
Built == pre.pc = "ret" /\ ~pre.err

\* C1: for every variant, base point p and scalar 0 <= k < ord, the evaluator
\* run on the table its builder wrote returns k*p as the double-and-add
\* reference computes it.
C1_FixEqualsReference ==
  \A q \in Procs :
    (Returned(q) /\ Built /\ 0 <= fix[q].k /\ fix[q].k < ord)
      => r[q] = RefMul(ord, base, fix[q].k)

\* C1 witness: a double-comb evaluation of (ord - 1) * p, p finite and
\* projective, has returned the reference result.
C1_Witness ==
  /\ EB_FIX = "COMBD" /\ Built /\ Returned(1)
  /\ base.v = 2 /\ ~base.norm /\ fix[1].k = ord - 1
  /\ r[1] = RefMul(ord, base, ord - 1)

\* C3: with k = 0 every evaluator sets r to the point at infinity and returns
\* without reading a slot of the table, without recoding and without
\* acquiring a temporary, whatever the table holds.
C3_ZeroScalar ==
  \A q \in Procs :
    (fix[q].pc \notin {"idle", "entry"} /\ fix[q].k = 0)
      => /\ fix[q].pc = "ret" /\ ~fix[q].err
         /\ r[q] = Infty
         /\ fix[q].reads = {} /\ ~fix[q].rec /\ fix[q].nalloc = 0

\* C3 witness: an evaluator has returned from k = 0 on a table no builder
\* ever wrote.
C3_Witness ==
  /\ pre.pc = "idle" /\ \A x \in DOMAIN t : t[x] = Unset
  /\ fix[1].pc = "ret" /\ fix[1].k = 0 /\ r[1] = Infty /\ fix[1].r0 # Infty

\* The slot that receives the verbatim copy of the base point.
CopySlot == IF EB_FIX \in {"COMBS", "COMBD"} THEN 1 ELSE 0

\* C5 as stated: whatever the form of p, every slot of a completed table and
\* every returned result is affine.
C5_AllSlotsAffine ==
  /\ Built => \A x \in pre.wr : t[x].norm
  /\ \A q \in Procs : Returned(q) => r[q].norm

\* C5 amended: every returned result is affine; every slot of a completed
\* table is affine when p is affine; when p is projective the slot holding
\* the copy of p keeps p's form and every other slot is affine.
C5_AffineExceptCopy ==
  /\ \A q \in Procs : Returned(q) => r[q].norm
  /\ Built => /\ t[CopySlot] = base
              /\ \A x \in pre.wr \ {CopySlot} : t[x].norm
              /\ base.norm => \A x \in pre.wr : t[x].norm

\* C5 witness: a table completed from a projective p, whose copy slot is
\* projective, and a finite result returned from it.
C5_Witness ==
  /\ Built /\ ~base.norm /\ ~t[CopySlot].norm /\ Cardinality(pre.wr) > 2
  /\ Returned(1) /\ r[1].v # 0 /\ fix[1].k < 0

\* C7: every temporary a builder or an evaluator acquires has been released
\* exactly once when the call returns, on every exit path.
C7_TemporariesReleased ==
  /\ pre.pc = "ret" => (~pre.held /\ pre.nfree = pre.nalloc)
  /\ pre.nfree <= pre.nalloc /\ pre.nalloc <= 1
  /\ \A q \in Procs :
       /\ fix[q].pc = "ret" => (~fix[q].held /\ fix[q].nfree = fix[q].nalloc)
       /\ fix[q].nfree <= fix[q].nalloc /\ fix[q].nalloc <= 1

\* C7 witness: an evaluator that had acquired its temporary returned through
\* the error path with the temporary released.
C7_Witness ==
  /\ pre.pc = "ret" /\ pre.nalloc = 1 /\ pre.nfree = 1
  /\ fix[1].pc = "ret" /\ fix[1].err /\ fix[1].nalloc = 1 /\ fix[1].nfree = 1

\* The table size the claim gives each variant.
ClaimedSize ==
  CASE EB_FIX = "BASIC" -> bn_bits(ord)
    [] EB_FIX = "YAOWI" -> CEIL(bn_bits(ord), EB_DEPTH)
    [] EB_FIX = "NAFWI" -> CEIL(bn_bits(ord) + 1, EB_DEPTH)
    [] EB_FIX = "COMBS" -> Pow2(EB_DEPTH)
    [] EB_FIX = "COMBD" -> 2 * Pow2(EB_DEPTH)
    [] OTHER -> Pow2(EB_DEPTH - 2)

\* C9: a builder writes and normalizes only slots 0..T-1, and a completed
\* table has every one of those T slots assigned.
C9_WritesExactlyTable ==
  EB_FIX # "LWNAF" =>
    /\ pre.wr \subseteq 0..(ClaimedSize - 1)
    /\ pre.nm \subseteq pre.wr
    /\ \A x \in DOMAIN t : (t[x] # Unset) <=> (x \in pre.wr)
    /\ Built => pre.wr = 0..(ClaimedSize - 1)

\* C9 witness: a completed double-comb table of 2 * 2^EB_DEPTH slots.
C9_Witness ==
  /\ EB_FIX = "COMBD" /\ Built /\ EB_DEPTH = 3
  /\ pre.wr = 0..15 /\ pre.nm = (2..7) \cup (9..15)

\* C4 as stated: on a completed table, k = ord yields the point at infinity
\* and k = ord + 1 yields what k = 1 yields, the point p itself.
C4_BoundaryScalar ==
  \A q \in Procs :
    (Returned(q) /\ Built)
      => /\ fix[q].k = ord => r[q] = Infty
         /\ fix[q].k = ord + 1 => r[q] = RefMul(ord, base, 1)

\* C4 failing run: on the group of order 7 = 2^3 - 1 with EB_DEPTH = 3, the
\* single-comb evaluation of (ord + 1) * p on the table built from the affine
\* generator p has returned the point at infinity instead of p.
C4_FailingRun ==
  /\ EB_FIX = "COMBS" /\ ord = 7 /\ EB_DEPTH = 3 /\ base = [v |-> 1, norm |-> TRUE]
  /\ Built /\ Returned(1) /\ fix[1].k = ord + 1 /\ fix[1].reads = {0}
  /\ r[1] = Infty /\ RefMul(ord, base, 1) = base

\* C6 as stated: a call that fails leaves the table, or the result, exactly
\* as it was before the call.
C6_NoPartialMutation ==
  /\ (pre.pc = "ret" /\ pre.err) => \A x \in DOMAIN t : t[x] = Unset
  /\ \A q \in Procs : (fix[q].pc = "ret" /\ fix[q].err) => r[q] = fix[q].r0

\* C6 amended: a call in which a step fails signals the failure to its
\* caller and does not roll back.  A failed builder leaves every slot it had
\* not yet written untouched, and the whole table untouched when the failure
\* precedes its first write; a failed evaluator leaves r as it was when the
\* failure is that of its first acquisition (eb_new or bn_new), and never
\* touches the table.
C6_FailureKeepsEarlierWrites ==
  /\ pre.pc = "ret" => (pre.err <=> pre.thrown)
  /\ (pre.pc = "ret" /\ pre.err)
       => /\ \A x \in DOMAIN t : x \notin pre.wr => t[x] = Unset
          /\ pre.nalloc = 0 => pre.wr = {}
  /\ \A q \in Procs :
       /\ fix[q].pc = "ret" => (fix[q].err <=> fix[q].thrown)
       /\ (fix[q].pc = "ret" /\ fix[q].err /\ FixHasTry(EB_FIX) /\ fix[q].nalloc = 0)
            => r[q] = fix[q].r0

\* C6 witness: an evaluator failed after its first steps and returned with
\* the failure signalled and r overwritten by an intermediate value.
C6_Witness ==
  /\ fix[1].pc = "ret" /\ fix[1].err /\ fix[1].nalloc = 1
  /\ r[1] # fix[1].r0 /\ r[1] # RefMul(ord, base, fix[1].k)

\* The largest packed magnitude the claim gives for width EB_DEPTH.
ClaimedMax ==
  IF EB_DEPTH % 2 = 0 THEN (Pow2(EB_DEPTH + 1) - 2) \div 3
  ELSE (Pow2(EB_DEPTH + 1) - 1) \div 3

\* Sum over j < EB_DEPTH, i * EB_DEPTH + j < l, of naf[i * EB_DEPTH + j] * 2^j.
RECURSIVE GroupSum(_, _, _)
GroupSum(naf, i, j) ==
  IF j >= EB_DEPTH THEN 0
  ELSE (IF i * EB_DEPTH + j < Len(naf) THEN naf[i * EB_DEPTH + j + 1] * Pow2(j) ELSE 0)
       + GroupSum(naf, i, j + 1)

\* Sum over i < d of dig[i] * t[i], as a discrete logarithm.
RECURSIVE PackedSum(_, _)
PackedSum(f, i) ==
  IF i >= f.d THEN 0 ELSE f.dig[i + 1] * t[i].v + PackedSum(f, i + 1)

\* C10: in eb_mul_fix_nafwi the repacking never overwrites a digit it has
\* still to read, each packed digit is the value of its group of NAF digits
\* and is at most m in magnitude, and the Yao loop leaves r equal to the sum
\* of naf[i] * t[i] (negated at the end for k < 0).
C10_NafwiRepack ==
  \A q \in Procs :
    LET f == fix[q] IN
    EB_FIX = "NAFWI" =>
      /\ ~f.clob
      /\ f.pc = "pack" => \A i \in 0..(f.i - 1) : f.dig[i + 1] = GroupSum(f.naf0, i, 0)
      /\ f.m > 0 =>
           /\ f.m = ClaimedMax /\ f.d = CEIL(Len(f.naf0), EB_DEPTH) /\ f.unread = {}
           /\ \A i \in 0..(f.d - 1) :
                /\ f.dig[i + 1] = GroupSum(f.naf0, i, 0)
                /\ Abs(f.dig[i + 1]) <= ClaimedMax
                /\ t[i] # Unset
      /\ f.pc = "neg" => r[q] = eb_norm(Mk(ord, PackedSum(f, 0)))
      /\ (Returned(q) /\ f.k # 0) =>
           r[q] = IF f.k < 0 THEN eb_neg(ord, eb_norm(Mk(ord, PackedSum(f, 0))))
                  ELSE eb_norm(Mk(ord, PackedSum(f, 0)))

\* C10 witness: a returned evaluation whose packed digits include a negative
\* one and one of the largest magnitude m.
C10_Witness ==
  /\ EB_FIX = "NAFWI" /\ Returned(1) /\ fix[1].k # 0 /\ base.v # 0
  /\ \E i \in 1..fix[1].d : fix[1].dig[i] < 0
  /\ \E i \in 1..fix[1].d : Abs(fix[1].dig[i]) = ClaimedMax

\* C2: on a completed table the evaluation of -k returns the negation of the
\* evaluation of k, for every nonzero k: the walk uses the magnitude of k
\* only, and the sign is applied by one negation after the normalization.
C2_SignSymmetry ==
  /\ (Built /\ Returned(1) /\ Returned(2) /\ fix[1].k # 0 /\ fix[1].k = -fix[2].k)
       => r[1] = eb_neg(ord, r[2])
  /\ \A q \in Procs :
       fix[q].pc = "neg"
         => fix[q].k < 0 /\ r[q].norm /\ r[q] = RefMul(ord, base, -fix[q].k)

\* C2 witness: the two invocations have returned from k = 3 and k = -3 with
\* finite results that are each other's negation.
C2_Witness ==
  /\ Built /\ Returned(1) /\ Returned(2)
  /\ fix[1].k = 3 /\ fix[2].k = -3
  /\ r[1].v # 0 /\ r[1] # r[2] /\ r[1] = eb_neg(ord, r[2])

\* C8: no step of an evaluator changes a completed table, and whatever the
\* interleaving of the invocations that share the table each returns the
\* result it returns when run alone, k * p.
C8_TableReadOnly ==
  /\ [][Built => t' = t]_vars
  /\ [](\A q \in Procs :
          (Built /\ Returned(q)) => r[q] = RefMul(ord, base, fix[q].k))

\* C8 witness: one invocation has returned its result while the other, with a
\* different scalar, is in the middle of its walk over the same table.
C8_Witness ==
  /\ Built /\ Returned(1) /\ fix[1].reads # {} /\ r[1] = RefMul(ord, base, fix[1].k)
  /\ fix[2].pc \notin {"idle", "entry", "ret", "catch", "finally"}
  /\ fix[2].reads # {} /\ fix[2].k # fix[1].k /\ fix[2].k # 0
  /\ \A x \in pre.wr : t[x] # Unset

\* Declared capacities of the digit buffers of the evaluators.
tnaf_size == FB_BITS + 8
naf_size == FB_BITS + 1
win_size == CEIL(FB_BITS, EB_DEPTH)

\* The digit buffer of the configured evaluator (BASIC and the combs keep no
\* digit array).
DigitCap ==
  CASE EB_FIX = "YAOWI" -> win_size
    [] EB_FIX = "NAFWI" -> naf_size
    [] EB_FIX = "LWNAF" -> IF eb_curve_is_kbltz THEN tnaf_size ELSE naf_size
    [] OTHER -> 0

\* The scalar of invocation q has at most as many bits as the group order.
ShortScalar(q) == bn_bits(fix[q].k) <= bn_bits(ord)

\* Every table index read so far is below the claimed size of the table and is
\* a slot the builder assigned; every digit index touched so far is inside the
\* buffer and below the length the recoder returned.
IndicesInRange(q) ==
  LET f == fix[q] IN
  /\ f.reads \subseteq 0..(ClaimedSize - 1)
  /\ f.reads \subseteq pre.wr
  /\ \A x \in f.reads : t[x] # Unset
  /\ f.didx \subseteq 0..(DigitCap - 1)
  /\ f.didx \subseteq 0..(f.l - 1)

\* C11: for every variant and every scalar whose magnitude has at most as many
\* bits as the group order, every table index the evaluator reads lies inside
\* the table its builder filled, and every digit-array index it reads or
\* writes lies inside the digit buffer and below the recoded length.
C11_IndicesInRange ==
  \A q \in Procs : ShortScalar(q) => IndicesInRange(q)

\* C11 witness: a NAFWI evaluation of a scalar as long as the order has
\* returned after reading the last slot of the table and the last digit the
\* recoder returned, in a recoding one digit longer than the order.
C11_Witness ==
  /\ EB_FIX = "NAFWI" /\ Built /\ Returned(1) /\ ~fix[1].thrown
  /\ bn_bits(fix[1].k) = bn_bits(ord) /\ fix[1].l = bn_bits(ord) + 1
  /\ (ClaimedSize - 1) \in fix[1].reads
  /\ (fix[1].l - 1) \in fix[1].didx

\* Table slot selected by the most significant recoded digit.
LeadIndex(f) == Abs(f.dig[f.l]) \div 2

\* Invocation q of an LWNAF evaluator has recoded a nonzero scalar.
Recoded(q) ==
  /\ EB_FIX = "LWNAF" /\ Built
  /\ fix[q].k # 0 /\ fix[q].rec /\ ~fix[q].thrown

\* The recoding is not empty and its most significant digit is nonzero
\* (positive without the endomorphism); past the first step the slot of that
\* digit has been read, and right after it r is the copy of that slot for a
\* positive digit and its negation for a negative one.
LeadingDigitUsed(q) ==
  LET f == fix[q] IN
  /\ f.l > 0
  /\ f.dig[f.l] # 0
  /\ ~eb_curve_is_kbltz => f.dig[f.l] > 0
  /\ f.pc # "first" => LeadIndex(f) \in f.reads
  /\ (f.pc = "loop" /\ f.i = f.l - 2) =>
       r[q] = IF f.dig[f.l] > 0 THEN eb_copy(t[LeadIndex(f)])
              ELSE eb_neg(ord, t[LeadIndex(f)])

\* C12: in the LWNAF evaluators, for every nonzero k, r is assigned from the
\* table before the first doubling or Frobenius step reads it: the most
\* significant digit is strictly positive in eb_mul_fix_plain and nonzero in
\* eb_mul_fix_kbltz, where the branch taken matches its sign; r is never used
\* uninitialized and a zero leading digit is never treated as negative.
C12_LeadingDigit ==
  \A q \in Procs : Recoded(q) => LeadingDigitUsed(q)

\* C12 witness: eb_mul_fix_kbltz stands right after its first assignment
\* of r for a positive scalar whose leading digit is negative: r is the
\* negation of the slot of that digit, not yet touched by the Frobenius map.
C12_Witness ==
  /\ Recoded(1) /\ eb_curve_is_kbltz /\ fix[1].k > 0
  /\ fix[1].pc = "loop" /\ fix[1].l > 2 /\ fix[1].i = fix[1].l - 2
  /\ fix[1].dig[fix[1].l] < 0 /\ base.v # 0
  /\ r[1] = eb_neg(ord, t[LeadIndex(fix[1])]) /\ r[1] # t[LeadIndex(fix[1])]

====
